---------------------------- MODULE Spec2Model ----------------------------
(***************************************************************************)
(* Model of the auth service of chatbot-app: the PKCE challenge store and  *)
(* OAuth routes (backend/auth/src/routes/oauth.ts), the passport strategy  *)
(* verify callbacks (backend/auth/src/config/oauth.ts), the User model     *)
(* over the users table (backend/auth/src/models/User.ts, the CREATE TABLE *)
(* of the database init script and migrations 002/003), the local         *)
(* register/login/refresh routes (auth routes), the authenticateToken      *)
(* middleware over jsonwebtoken, the rate limiter in front of the OAuth     *)
(* routes, and the chat service's POST /ai/generate-response route.         *)
(*                                                                         *)
(* Every request handler is an async function: each awaited database call  *)
(* is one atomic step and other requests may run between two steps.        *)
(* Synchronous code (generatePKCE, verifyPKCE, jwt.sign) runs to           *)
(* completion inside the step that reaches it.                              *)
(***************************************************************************)
EXTENDS Integers, Sequences, FiniteSets, TLC

\* ------------------------------------------------------------------ bounds
\* Number of PKCE keys generatePKCE may hand out in one behaviour.
MaxKeys == 2
\* Last instant of the clock (one unit of time is five minutes).
MaxTime == 3
\* Last instant of the token clock (one unit of time is twelve hours).
MaxClock == 3
\* Number of tokens a client keeps in one behaviour.
MaxHeld == 2
\* Number of requests beyond its quota a client sends in one window.
MaxOver == 1
\* Number of POST /ai/generate-response requests in one behaviour.
MaxRequests == 2

\* ------------------------------------------------------- program constants
\* expires: Date.now() + 10 * 60 * 1000, in units of five minutes.
PkceTtl == 2
\* expiresIn: '24h', in units of twelve hours.
TokenTtl == 2
\* windowMs: 15 * 60 * 1000, in units of five minutes.
windowMs == 3
\* max: 10 requests per windowMs.
max == 10
\* process.env.JWT_SECRET || 'fallback-secret', and a key that is not the secret.
Secret == "JWT_SECRET"
OtherKey == "other-key"

Null == "null"
Undefined == "undefined"

\* A provider name outside the closed set, as a caller of link/unlink may send.
OtherProvider == "facebook"
\* A provider test that lets any name through.
ProvidersOpen == {"google", "github", "microsoft", OtherProvider}
\* ['google', 'github', 'microsoft'].includes(provider)
Providers == {"google", "github", "microsoft"}
Emails == {"e1", "e2"}
Passwords == {"pw1", "pw2"}
Roles == {"user", "admin"}
ExternalIds == {"x1", "x2"}
\* crypto.randomBytes(32).toString('base64url') is a fresh string: the n-th call
\* returns the n-th of these, and "v0" is a string no call returns.
VerifierNames == <<"v1", "v2", "v3", "v4">>
RandomVerifier(n) == IF n \in DOMAIN VerifierNames THEN VerifierNames[n] ELSE "v0"
Verifiers == {RandomVerifier(n) : n \in 1..MaxKeys}
Keys == 1..MaxKeys
\* A key no generatePKCE call produced (a forged or missing state parameter).
NoKey == 0
Reqs == {"r1", "r2"}
\* Slots are taken in this order.
SlotOrder == {<<"r1", "r2">>}
Callers == {"c1", "c2"}
\* POST /ai/generate-response requests of one behaviour, and the conversationId
\* a body may carry (or none).
RequestIds == 1..MaxRequests
ConversationIds == {"conv1"}
\* Client IPs (req.ip, the key of the rate limiter).  The limiter keeps one
\* counter per key and a request touches only its own client's counter.
Ips == {"ip1"}

VARIABLES
    now,          \* Date.now(), in units of five minutes
    pkceStore,    \* pkceStore: key -> [challenge, verifier, expires]
    nextKey,      \* number of keys generated so far (keys are fresh random values)
    flows,        \* history: key -> [provider, challenge, expires] as generated, and the
                  \* authorization request the start route sent
    verified,     \* history: key -> how often verifyPKCE returned its verifier (counted to 2)
    vcall,        \* per caller: the verifyPKCE call it is about to make
    lastVerify,   \* history: the latest verifyPKCE call and what it returned
    users,        \* the users table: sequence of rows, row i has id i
    req,          \* per request slot: the handler in flight and its locals
    out,          \* history: the latest request answered and its response
    clockTimestamp, \* jsonwebtoken's clock, Math.floor(Date.now() / 1000), in units of twelve hours
    held,         \* the tokens a client has kept from the responses it received
    tres,         \* history: the latest token presented and the answer to it
    hits,         \* oauthLimiter's store, per client IP: totalHits of the current window
    resetTime,    \* oauthLimiter's store, per client IP: the instant the current window ends
    recent,       \* history, per client IP: requests let through to a handler at the
                  \* previous instant and at this one
    limited,      \* history: the latest request oauthLimiter saw, what it did with it, and
                  \* how many requests of that client it has let through in the window
    messages,     \* the chat service's message store: the rows createMessage inserted
    aiReq         \* per POST /ai/generate-response request: where its handler is, its
                  \* body's conversationId, and the responses it has received

vars == <<now, pkceStore, nextKey, flows, verified, vcall, lastVerify, users, req, out,
          clockTimestamp, held, tres, hits, resetTime, recent, limited, messages, aiReq>>
tokenVars == <<clockTimestamp, held, tres>>
limitVars == <<hits, resetTime, recent, limited>>
aiVars == <<messages, aiReq>>
pkceVars == <<pkceStore, nextKey, flows>>
userVars == <<users, req, out>>

\* ---------------------------------------------------------------- PKCE store

\* crypto.createHash('sha256').update(verifier).digest('base64url')
Sha256(v) == <<"sha256", v>>

\* A sweep that also deletes the entries expiring at this very instant.
SweepExpiredInclusive(store, t) ==
    [k \in {j \in DOMAIN store : ~(store[j].expires <= t)} |-> store[k]]

\* The sweep at the end of generatePKCE: delete every entry with expires < Date.now().
SweepExpired(store, t) ==
    [k \in {j \in DOMAIN store : ~(store[j].expires < t)} |-> store[k]]

\* generatePKCE: store the new entry under the fresh key, then sweep.
GeneratePKCE(store, key, verifier, t) ==
    SweepExpired(
        [k \in DOMAIN store \cup {key} |->
            IF k = key
            THEN [challenge |-> Sha256(verifier), verifier |-> verifier, expires |-> t + PkceTtl]
            ELSE store[k]],
        t)

VerifyPKCEResultNoExpiry(store, key, challenge, t) ==
    IF \/ key \notin DOMAIN store
       \/ store[key].challenge # challenge
    THEN Null
    ELSE store[key].verifier

VerifyPKCEResultAnyChallenge(store, key, challenge, t) ==
    IF \/ key \notin DOMAIN store
       \/ store[key].expires < t
    THEN Null
    ELSE store[key].verifier

\* verifyPKCE, the value returned.
VerifyPKCEResult(store, key, challenge, t) ==
    IF \/ key \notin DOMAIN store
       \/ store[key].expires < t
       \/ store[key].challenge # challenge
    THEN Null
    ELSE store[key].verifier

VerifyPKCEStoreKeepsEntry(store, key, challenge, t) == store

\* A verifyPKCE that deletes the entry it looked at, whatever the outcome.
VerifyPKCEStoreAlwaysDeletes(store, key, challenge, t) ==
    [k \in DOMAIN store \ {key} |-> store[k]]

\* verifyPKCE, the store it leaves: the entry is deleted on success only.
VerifyPKCEStore(store, key, challenge, t) ==
    IF VerifyPKCEResult(store, key, challenge, t) = Null
    THEN store
    ELSE [k \in DOMAIN store \ {key} |-> store[k]]

\* What a caller may present: a generated challenge, or one that matches no verifier.
Challenges == {Sha256(v) : v \in Verifiers} \cup {Sha256(RandomVerifier(0))}
\* With key k a caller presents the challenge generated with k or a wrong one.
ChallengesFor(k) == {ch \in Challenges : ch \in {Sha256(RandomVerifier(k)), Sha256(RandomVerifier(0))}}

NoCall == [key |-> NoKey, challenge |-> Null, state |-> "idle", overlap |-> FALSE]

NoVerify == [key |-> NoKey, challenge |-> Null, result |-> Null,
             replay |-> FALSE, overlap |-> FALSE, intime |-> FALSE, afterMiss |-> FALSE]

\* JSON.stringify(value): a string that determines the value.
JsonStringify(value) == <<"json", value>>

\* The scope each start route asks for.
Scope == [google |-> <<"profile", "email">>, github |-> <<"user:email">>,
          microsoft |-> <<"openid", "profile", "email">>]

\* The options a start route hands to passport.authenticate, which become the
\* query of the redirect to the provider: scope and state ({ key, challenge } is
\* destructured from generatePKCE() and challenge is not used again).
AuthRequest(p, key) ==
    [scope |-> Scope[p], state |-> JsonStringify([provider |-> p, pkceKey |-> key])]

\* router.get('/google' | '/github' | '/microsoft'): generatePKCE, then the redirect
\* to the provider carrying state = {provider, pkceKey}.  crypto.randomBytes(16)
\* is a fresh key: a value no earlier call returned.
StartFlow(p) ==
    /\ nextKey < MaxKeys
    /\ \E v \in {RandomVerifier(nextKey + 1)} :
          LET key == nextKey + 1 IN
          /\ pkceStore' = GeneratePKCE(pkceStore, key, v, now)
          /\ flows' = [k \in DOMAIN flows \cup {key} |->
                          IF k = key
                          THEN [provider |-> p, challenge |-> Sha256(v), expires |-> now + PkceTtl,
                                authRequest |-> AuthRequest(p, key)]
                          ELSE flows[k]]
          /\ verified' = [k \in DOMAIN verified \cup {key} |->
                          IF k = key THEN 0 ELSE verified[k]]
          /\ nextKey' = key

\* A start route answering a request that oauthLimiter let through.
OAuthStart(p) ==
    /\ StartFlow(p)
    /\ UNCHANGED <<now, vcall, lastVerify, userVars, tokenVars, limitVars, aiVars>>

\* A caller is about to call verifyPKCE(key, challenge); another caller may be
\* about to do the same with the same key.
CallVerify(c, k, ch) ==
    /\ vcall[c].state = "idle"
    /\ LET others == {d \in Callers \ {c} : vcall[d].state = "pending" /\ vcall[d].key = k} IN
       vcall' = [d \in Callers |->
                    IF d = c
                    THEN [key |-> k, challenge |-> ch, state |-> "pending",
                          overlap |-> (others # {})]
                    ELSE IF d \in others THEN [vcall[d] EXCEPT !.overlap = TRUE]
                    ELSE vcall[d]]
    /\ UNCHANGED <<now, pkceVars, verified, lastVerify, userVars, tokenVars, limitVars, aiVars>>

\* The verifyPKCE call before this one was on key k too, found its entry live,
\* presented a wrong challenge and returned null.
MissedJustBefore(k) ==
    /\ lastVerify.key = k /\ k \in DOMAIN pkceStore
    /\ lastVerify.intime /\ lastVerify.result = Null
    /\ lastVerify.challenge # pkceStore[k].challenge

\* verifyPKCE runs: a synchronous function, so one step.
VerifyPKCE(c) ==
    /\ vcall[c].state = "pending"
    /\ LET k == vcall[c].key
           ch == vcall[c].challenge
           res == VerifyPKCEResult(pkceStore, k, ch, now)
       IN
       /\ pkceStore' = VerifyPKCEStore(pkceStore, k, ch, now)
       /\ verified' = IF res = Null THEN verified
                      ELSE [verified EXCEPT ![k] = IF @ < 2 THEN @ + 1 ELSE @]
       /\ lastVerify' = [key |-> k, challenge |-> ch, result |-> res,
                         replay |-> (k \in DOMAIN verified /\ verified[k] > 0),
                         overlap |-> vcall[c].overlap,
                         intime |-> (k \in DOMAIN flows /\ ~(flows[k].expires < now)),
                         afterMiss |-> MissedJustBefore(k)]
       /\ vcall' = [vcall EXCEPT ![c] = NoCall]
    /\ UNCHANGED <<now, nextKey, flows, userVars, tokenVars, limitVars, aiVars>>

\* Date.now() advances.
Tick ==
    /\ now < MaxTime
    /\ now' = now + 1
    /\ recent' = [ip \in Ips |-> <<recent[ip][2], 0>>]
    /\ UNCHANGED <<pkceVars, verified, vcall, lastVerify, userVars, tokenVars,
                   hits, resetTime, limited, aiVars>>

\* ------------------------------------------------------------ users table

\* A row of table users as node-postgres returns it: keyed by column name.
\* uuidv4() ids are fresh; row i of the sequence has id i.
NewRow(rows, email, passwordHash, role, oauthProvider, oauthId, emailVerified) ==
    [id |-> Len(rows) + 1, email |-> email, password_hash |-> passwordHash,
     role |-> role, oauth_provider |-> oauthProvider, oauth_id |-> oauthId,
     email_verified |-> emailVerified, last_login |-> Null]

\* The same table without the NOT NULL on password_hash.
InsertOkNullablePassword(rows, row) ==
    /\ row.email # Null
    /\ \A i \in DOMAIN rows : rows[i].email # row.email

\* The same table without the UNIQUE on email.
InsertOkNoUniqueEmail(rows, row) ==
    /\ row.email # Null
    /\ row.password_hash # Null

\* CREATE TABLE users: email UNIQUE NOT NULL, password_hash NOT NULL.  The index
\* idx_users_oauth_provider_id of migration 002 is not UNIQUE and rejects nothing.
InsertOk(rows, row) ==
    /\ row.email # Null
    /\ \A i \in DOMAIN rows : rows[i].email # row.email
    /\ row.password_hash # Null

\* JavaScript property read row[name]: undefined when the row has no such key.
Prop(row, name) == IF name \in DOMAIN row THEN row[name] ELSE Undefined

\* A test that takes null for a value.
TruthyNull(v) == v # Undefined

\* JavaScript truthiness of the values that occur here.
Truthy(v) == v # Null /\ v # Undefined

\* bcrypt.hash(password, 12) and bcrypt.compare(password, hash).
BcryptHash(pw) == <<"bcrypt", pw>>
BcryptCompare(pw, hash) == hash = BcryptHash(pw)

\* The null a find returns for no row, and the test `if (user)` on a find's result.
NoRow == [id |-> 0]
IsRow(u) == u.id # 0

\* No token in a response.
NoToken == [userId |-> 0]

\* result.rows[0] || null of a SELECT without ORDER BY: any matching row.
FirstRow(matching) == IF matching = {} THEN {NoRow} ELSE matching

\* User.findByEmail / findById / findByOAuthId: the values the call may return.
FindByEmail(rows, email) ==
    FirstRow({rows[i] : i \in {j \in DOMAIN rows : rows[j].email = email}})
FindById(rows, id) ==
    FirstRow({rows[i] : i \in {j \in DOMAIN rows : rows[j].id = id}})
FindByOAuthId(rows, provider, oauthId) ==
    FirstRow({rows[i] : i \in {j \in DOMAIN rows :
                 rows[j].oauth_provider = provider /\ rows[j].oauth_id = oauthId}})

\* The UPDATE without its WHERE clause.
UpdateOAuthInfoEveryRow(rows, userId, provider, oauthId) ==
    [i \in DOMAIN rows |->
        [rows[i] EXCEPT !.oauth_provider = provider, !.oauth_id = oauthId]]

\* User.updateOAuthInfo: UPDATE users SET oauth_provider, oauth_id WHERE id.
UpdateOAuthInfo(rows, userId, provider, oauthId) ==
    [i \in DOMAIN rows |->
        IF rows[i].id = userId
        THEN [rows[i] EXCEPT !.oauth_provider = provider, !.oauth_id = oauthId]
        ELSE rows[i]]

\* User.updateLastLogin: UPDATE users SET last_login = CURRENT_TIMESTAMP WHERE id.
UpdateLastLogin(rows, userId, t) ==
    [i \in DOMAIN rows |->
        IF rows[i].id = userId THEN [rows[i] EXCEPT !.last_login = t] ELSE rows[i]]

\* A jwt.sign that writes the default role into every token.
SignDefaultRole(user) ==
    [userId |-> Prop(user, "id"), email |-> Prop(user, "email"), role |-> "user",
     exp |-> clockTimestamp + TokenTtl, sig |-> Secret]

\* jwt.sign({ userId: user.id, email: user.email, role: user.role }, secret,
\* { expiresIn: '24h' }): the payload, exp = now + 24h, signed with the secret.
Sign(user) ==
    [userId |-> Prop(user, "id"), email |-> Prop(user, "email"), role |-> Prop(user, "role"),
     exp |-> clockTimestamp + TokenTtl, sig |-> Secret]

\* Ids a caller of link/unlink may name: those of the rows that can exist (a row
\* with the id exists or not, depending on how many users registered).
UserIds == 1..Cardinality(Emails)

\* ------------------------------------------------------------ request slots

NoReq == [kind |-> "idle", pc |-> "idle", email |-> Null, pw |-> Null, role |-> Null,
          provider |-> Null, oauthId |-> Null, userId |-> 0, stateKey |-> NoKey,
          user |-> NoRow]

NoOut == [kind |-> "none", resp |-> Null, token |-> NoToken, email |-> Null, pw |-> Null,
          provider |-> Null, oauthId |-> Null, userId |-> 0, stateKey |-> NoKey,
          wrote |-> "none", during |-> {}, again |-> FALSE]

InFlight(r) == req[r].pc # "idle"

\* A request arrives and takes the first free slot.
Arrive(r, rec) ==
    /\ req[r].pc = "idle"
    /\ \A o \in Reqs : req[o].pc = "idle" => ~(<<o, r>> \in SlotOrder)
    /\ req' = [req EXCEPT ![r] = rec]
    /\ UNCHANGED out

\* What an UPDATE of the OAuth columns of row userId does to an existing link.
HasLink(rows, userId) ==
    \E i \in DOMAIN rows : rows[i].id = userId /\ rows[i].oauth_provider # Null
LinkWrite(rows, userId) == IF HasLink(rows, userId) THEN "relink" ELSE "link"
UnlinkWrite(rows, userId) == IF HasLink(rows, userId) THEN "unlink" ELSE "none"

\* The handler in slot r answers and the slot is free again.  out keeps the
\* request, its response, what it wrote, the slots whose requests were in flight
\* with it, and whether it repeats, with the same outcome, the request that was
\* answered just before it arrived.
Respond(r, resp, token, wrote) ==
    /\ req' = [req EXCEPT ![r] = NoReq]
    /\ out' = [kind |-> req[r].kind, resp |-> resp, token |-> token,
               email |-> req[r].email, pw |-> req[r].pw, provider |-> req[r].provider,
               oauthId |-> req[r].oauthId, userId |-> req[r].userId,
               stateKey |-> req[r].stateKey, wrote |-> wrote,
               during |-> {o \in Reqs \ {r} : InFlight(o)},
               again |-> /\ r \notin out.during
                         /\ out.kind = req[r].kind /\ out.email = req[r].email
                         /\ out.pw = req[r].pw /\ out.provider = req[r].provider
                         /\ out.oauthId = req[r].oauthId /\ out.userId = req[r].userId
                         /\ out.resp = resp /\ out.token = token]

Goto(r, pc, user) ==
    /\ req' = [req EXCEPT ![r].pc = pc, ![r].user = user]
    /\ UNCHANGED out

\* ---------------------------------------------------------------- handlers

\* POST /register arrives (validateRequest(authSchema) has passed).
StartRegister(r, e, p, role) ==
    /\ Arrive(r, [NoReq EXCEPT !.kind = "register", !.pc = "find", !.email = e,
                               !.pw = p, !.role = role])
    /\ UNCHANGED <<now, pkceVars, verified, vcall, lastVerify, users, tokenVars, limitVars, aiVars>>

\* router.post('/register'): findByEmail, then bcrypt.hash and User.create.
Register(r) ==
    /\ req[r].kind = "register" /\ InFlight(r)
    /\ IF req[r].pc = "find"
       THEN /\ \E existingUser \in FindByEmail(users, req[r].email) :
                 IF IsRow(existingUser)
                 THEN Respond(r, "AlreadyExists", NoToken, "none")
                 ELSE Goto(r, "create", NoRow)
            /\ users' = users
       ELSE LET user == NewRow(users, req[r].email, BcryptHash(req[r].pw), req[r].role,
                               Null, Null, FALSE)
            IN IF InsertOk(users, user)
               THEN /\ users' = Append(users, user)
                    /\ Respond(r, "token", Sign(user), "insert")
               ELSE /\ users' = users
                    /\ Respond(r, "InternalError", NoToken, "none")
    /\ UNCHANGED <<now, pkceVars, verified, vcall, lastVerify, tokenVars, limitVars, aiVars>>

\* POST /login arrives.
StartLogin(r, e, p) ==
    /\ Arrive(r, [NoReq EXCEPT !.kind = "login", !.pc = "find", !.email = e, !.pw = p])
    /\ UNCHANGED <<now, pkceVars, verified, vcall, lastVerify, users, tokenVars, limitVars, aiVars>>

\* router.post('/login'): findByEmail, the passwordHash test, bcrypt.compare, then
\* updateLastLogin and jwt.sign.
Login(r) ==
    /\ req[r].kind = "login" /\ InFlight(r)
    /\ IF req[r].pc = "find"
       THEN /\ \E user \in FindByEmail(users, req[r].email) :
                 IF ~IsRow(user)
                 THEN Respond(r, "InvalidCredentials", NoToken, "none")
                 ELSE IF ~Truthy(Prop(user, "passwordHash"))
                 THEN Respond(r, "UseOAuth", NoToken, "none")
                 ELSE IF ~BcryptCompare(req[r].pw, Prop(user, "passwordHash"))
                 THEN Respond(r, "InvalidCredentials", NoToken, "none")
                 ELSE Goto(r, "update", user)
            /\ users' = users
       ELSE /\ users' = UpdateLastLogin(users, req[r].user.id, now)
            /\ Respond(r, "token", Sign(req[r].user), "login")
    /\ UNCHANGED <<now, pkceVars, verified, vcall, lastVerify, tokenVars, limitVars, aiVars>>

\* GET /<provider>/callback arrives: passport has exchanged the code and fetched
\* the profile (id x, email e or none); k is the pkceKey of the state parameter
\* the request carries.
StartCallback(r, p, x, e, k) ==
    /\ Arrive(r, [NoReq EXCEPT !.kind = "callback", !.pc = "find", !.provider = p,
                               !.oauthId = x, !.email = e, !.stateKey = k])
    /\ UNCHANGED <<now, pkceVars, verified, vcall, lastVerify, users, tokenVars, limitVars, aiVars>>

\* The strategy's verify callback (findByEmail, then updateOAuthInfo or
\* createOAuthUser), then the route's jwt.sign and redirect.
Callback(r) ==
    /\ req[r].kind = "callback" /\ InFlight(r)
    /\ IF req[r].pc = "find"
       THEN /\ IF ~Truthy(req[r].email)
               THEN Respond(r, "NoEmailProvided", NoToken, "none")
               ELSE \E user \in FindByEmail(users, req[r].email) :
                       IF IsRow(user)
                       THEN IF ~Truthy(Prop(user, "oauthProvider"))
                            THEN Goto(r, "update", user)
                            ELSE Respond(r, "token", Sign(user), "none")
                       ELSE Goto(r, "create", NoRow)
            /\ users' = users
       ELSE IF req[r].pc = "update"
       THEN /\ users' = UpdateOAuthInfo(users, req[r].user.id, req[r].provider, req[r].oauthId)
            /\ Respond(r, "token", Sign(req[r].user), LinkWrite(users, req[r].user.id))
       ELSE LET user == NewRow(users, req[r].email, Null, "user",
                               req[r].provider, req[r].oauthId, TRUE)
            IN IF InsertOk(users, user)
               THEN /\ users' = Append(users, user)
                    /\ Respond(r, "token", Sign(user), "insert")
               ELSE /\ users' = users
                    /\ Respond(r, "Error", NoToken, "none")
    /\ UNCHANGED <<now, pkceVars, verified, vcall, lastVerify, tokenVars, limitVars, aiVars>>

\* POST /link/:provider arrives with body {userId, oauthId}.
StartLink(r, id, p, x) ==
    /\ Arrive(r, [NoReq EXCEPT !.kind = "link", !.pc = "findById", !.userId = id,
                               !.provider = p, !.oauthId = x])
    /\ UNCHANGED <<now, pkceVars, verified, vcall, lastVerify, users, tokenVars, limitVars, aiVars>>

\* router.post('/link/:provider'): the provider test, findById, findByOAuthId,
\* then User.linkOAuthAccount (findByOAuthId again, updateOAuthInfo).
Link(r) ==
    /\ req[r].kind = "link" /\ InFlight(r)
    /\ IF req[r].pc = "findById"
       THEN /\ IF req[r].provider \notin Providers
               THEN Respond(r, "InvalidProvider", NoToken, "none")
               ELSE \E user \in FindById(users, req[r].userId) :
                       IF ~IsRow(user)
                       THEN Respond(r, "UserNotFound", NoToken, "none")
                       ELSE Goto(r, "check", NoRow)
            /\ users' = users
       ELSE IF req[r].pc = "check"
       THEN /\ \E existingUser \in FindByOAuthId(users, req[r].provider, req[r].oauthId) :
                 IF IsRow(existingUser) /\ existingUser.id # req[r].userId
                 THEN Respond(r, "AlreadyLinkedElsewhere", NoToken, "none")
                 ELSE Goto(r, "recheck", NoRow)
            /\ users' = users
       ELSE IF req[r].pc = "recheck"
       THEN /\ \E existingUser \in FindByOAuthId(users, req[r].provider, req[r].oauthId) :
                 IF IsRow(existingUser) /\ existingUser.id # req[r].userId
                 THEN Respond(r, "InternalError", NoToken, "none")
                 ELSE Goto(r, "update", NoRow)
            /\ users' = users
       ELSE /\ users' = UpdateOAuthInfo(users, req[r].userId, req[r].provider, req[r].oauthId)
            /\ Respond(r, "ok", NoToken, LinkWrite(users, req[r].userId))
    /\ UNCHANGED <<now, pkceVars, verified, vcall, lastVerify, tokenVars, limitVars, aiVars>>

\* POST /unlink/:provider arrives with body {userId}.
StartUnlink(r, id, p) ==
    /\ Arrive(r, [NoReq EXCEPT !.kind = "unlink", !.pc = "findById", !.userId = id,
                               !.provider = p])
    /\ UNCHANGED <<now, pkceVars, verified, vcall, lastVerify, users, tokenVars, limitVars, aiVars>>

\* router.post('/unlink/:provider'): the provider test, findById, then
\* updateOAuthInfo(userId, null, null).
Unlink(r) ==
    /\ req[r].kind = "unlink" /\ InFlight(r)
    /\ IF req[r].pc = "findById"
       THEN /\ IF req[r].provider \notin Providers
               THEN Respond(r, "InvalidProvider", NoToken, "none")
               ELSE \E user \in FindById(users, req[r].userId) :
                       IF ~IsRow(user)
                       THEN Respond(r, "UserNotFound", NoToken, "none")
                       ELSE Goto(r, "update", NoRow)
            /\ users' = users
       ELSE /\ users' = UpdateOAuthInfo(users, req[r].userId, Null, Null)
            /\ Respond(r, "ok", NoToken, UnlinkWrite(users, req[r].userId))
    /\ UNCHANGED <<now, pkceVars, verified, vcall, lastVerify, tokenVars, limitVars, aiVars>>

\* ------------------------------------------------------------------ tokens

\* jwt.verify without the expiry check.
JwtVerifyIgnoresExpiry(token, t) ==
    IF token.sig # Secret THEN "JsonWebTokenError" ELSE "ok"

\* jwt.verify(token, secret): the signature is checked first and a bad one throws
\* JsonWebTokenError; then exp is checked against the clock and a token with
\* clockTimestamp >= exp throws TokenExpiredError; otherwise the payload returns.
JwtVerify(token, t) ==
    IF token.sig # Secret THEN "JsonWebTokenError"
    ELSE IF t >= token.exp THEN "TokenExpiredError"
    ELSE "ok"

\* error instanceof jwt.JsonWebTokenError / jwt.TokenExpiredError:
\* TokenExpiredError is a subclass of JsonWebTokenError.
IsJsonWebTokenError(error) == error \in {"JsonWebTokenError", "TokenExpiredError"}
IsTokenExpiredError(error) == error = "TokenExpiredError"

\* The payload of a token, and the same three fields of a users row.
Payload(token) == [userId |-> token.userId, email |-> token.email, role |-> token.role]
RowClaims(user) ==
    [userId |-> Prop(user, "id"), email |-> Prop(user, "email"), role |-> Prop(user, "role")]

NoTokenResponse == [op |-> "none", token |-> NoToken, at |-> 0, verify |-> Null,
                    resp |-> Null, claims |-> NoToken, newToken |-> NoToken]

\* What a client may present: a token it kept, the same payload signed with a
\* key that is not the secret, or nothing.
Presented == held \cup {[t EXCEPT !.sig = OtherKey] : t \in held} \cup {NoToken}

\* jsonwebtoken's clock advances.
ClockTick ==
    /\ clockTimestamp < MaxClock
    /\ clockTimestamp' = clockTimestamp + 1
    /\ UNCHANGED <<now, pkceVars, verified, vcall, lastVerify, userVars, held, tres, limitVars, aiVars>>

\* The client keeps the token of the response it just received.
KeepIssued ==
    /\ out.token # NoToken /\ out.token \notin held
    /\ Cardinality(held) < MaxHeld
    /\ held' = held \cup {out.token}
    /\ UNCHANGED <<now, pkceVars, verified, vcall, lastVerify, userVars, clockTimestamp, tres, limitVars, aiVars>>

\* The client keeps the token a refresh returned.
KeepRefreshed ==
    /\ tres.newToken # NoToken /\ tres.newToken \notin held
    /\ Cardinality(held) < MaxHeld
    /\ held' = held \cup {tres.newToken}
    /\ UNCHANGED <<now, pkceVars, verified, vcall, lastVerify, userVars, clockTimestamp, tres, limitVars, aiVars>>

\* authenticateToken: the Bearer token test, jwt.verify, User.findById, then
\* next() with req.user, or the catch's instanceof chain.  No row is ever
\* deleted or has its id, email or role updated, so the await of findById is
\* taken in the same step.
Authenticate(token) ==
    /\ LET error == IF token = NoToken THEN Null ELSE JwtVerify(token, clockTimestamp)
           answer(resp, claims) ==
               tres' = [op |-> "authenticate", token |-> token, at |-> clockTimestamp,
                        verify |-> error, resp |-> resp, claims |-> claims,
                        newToken |-> NoToken]
       IN IF token = NoToken
          THEN answer("Access token required", NoToken)
          ELSE IF error = "ok"
          THEN \E user \in FindById(users, token.userId) :
                  IF ~IsRow(user)
                  THEN answer("Invalid token", NoToken)
                  ELSE answer("next", RowClaims(user))
          ELSE IF IsJsonWebTokenError(error)
          THEN answer("Invalid token", NoToken)
          ELSE IF IsTokenExpiredError(error)
          THEN answer("Token expired", NoToken)
          ELSE answer("Internal server error", NoToken)
    /\ UNCHANGED <<now, pkceVars, verified, vcall, lastVerify, userVars, clockTimestamp, held, limitVars, aiVars>>

\* router.post('/refresh'): the token test, jwt.verify, User.findById, jwt.sign
\* from the row found; every error lands in the one catch.
Refresh(token) ==
    /\ LET error == IF token = NoToken THEN Null ELSE JwtVerify(token, clockTimestamp)
           answer(resp, newToken) ==
               tres' = [op |-> "refresh", token |-> token, at |-> clockTimestamp,
                        verify |-> error, resp |-> resp, claims |-> NoToken,
                        newToken |-> newToken]
       IN IF token = NoToken
          THEN answer("Token required", NoToken)
          ELSE IF error = "ok"
          THEN \E user \in FindById(users, token.userId) :
                  IF ~IsRow(user)
                  THEN answer("Invalid token", NoToken)
                  ELSE answer("token", Sign(user))
          ELSE answer("Invalid token", NoToken)
    /\ UNCHANGED <<now, pkceVars, verified, vcall, lastVerify, userVars, clockTimestamp, held, limitVars, aiVars>>

\* ------------------------------------------------- AI response generation

\* const fallbackResponse = "..."
fallbackResponse ==
    "I apologize, but I'm having trouble responding right now. Please try again later."
\* aiResponse.data.response, what the AI service answered.
AiReply == "reply"

NoAiReq == [pc |-> "idle", conversationId |-> Undefined, responses |-> 0,
            status |-> 0, response |-> Null, fallback |-> FALSE, messageId |-> 0]

\* Everything the chat routes do not touch.
authVars == <<now, pkceVars, verified, vcall, lastVerify, userVars, tokenVars, limitVars>>

\* MessageManager.createMessage resolves: one more row, whose id it returns.
\* (forRequest is history: the request whose handler inserted the row.)
CreateMessage(rows, id, conversationId, content) ==
    Append(rows, [id |-> Len(rows) + 1, conversationId |-> conversationId,
                  senderId |-> "ai", content |-> content, messageType |-> "ai",
                  forRequest |-> id])

\* res.json / res.status(500).json: the request has one more response.
Send(id, pc, status, response, fallback, messageId) ==
    aiReq' = [aiReq EXCEPT ![id] = [@ EXCEPT !.pc = pc, !.responses = @ + 1,
                                             !.status = status, !.response = response,
                                             !.fallback = fallback, !.messageId = messageId]]

\* The catch block: with a conversationId in the body the fallback is saved
\* first (an await), without one it is sent at once.
Catch(id) ==
    IF Truthy(aiReq[id].conversationId)
    THEN aiReq' = [aiReq EXCEPT ![id].pc = "saveFallback"]
    ELSE Send(id, "done", 500, fallbackResponse, TRUE, 0)

\* POST /ai/generate-response arrives and the handler calls the AI service.
PostGenerateResponse(id, conversationId) ==
    /\ aiReq[id].pc = "idle" /\ aiReq[id].responses = 0
    /\ \A j \in RequestIds : j < id => aiReq[j].pc # "idle"
    /\ aiReq' = [aiReq EXCEPT ![id] = [NoAiReq EXCEPT !.pc = "callAi",
                                                       !.conversationId = conversationId]]
    /\ UNCHANGED <<messages, authVars>>

\* axios.post resolves with the AI service's answer.
AiResolves(id) ==
    /\ aiReq[id].pc = "callAi"
    /\ aiReq' = [aiReq EXCEPT ![id].pc = "saveReply"]
    /\ UNCHANGED <<messages, authVars>>

\* axios.post rejects: the service is down, answers with an error status, or
\* does not answer within the 10 second timeout.
AiRejects(id) ==
    /\ aiReq[id].pc = "callAi"
    /\ Catch(id)
    /\ UNCHANGED <<messages, authVars>>

\* createMessage of the AI reply resolves: the handler sends the reply.
SaveReplyResolves(id) ==
    /\ aiReq[id].pc = "saveReply"
    /\ messages' = CreateMessage(messages, id, aiReq[id].conversationId, AiReply)
    /\ Send(id, "done", 200, AiReply, FALSE, Len(messages) + 1)
    /\ UNCHANGED authVars

\* createMessage of the AI reply rejects: the catch block.
SaveReplyRejects(id) ==
    /\ aiReq[id].pc = "saveReply"
    /\ Catch(id)
    /\ UNCHANGED <<messages, authVars>>

\* createMessage of the fallback resolves: the handler sends the fallback.
SaveFallbackResolves(id) ==
    /\ aiReq[id].pc = "saveFallback"
    /\ messages' = CreateMessage(messages, id, aiReq[id].conversationId, fallbackResponse)
    /\ Send(id, "done", 500, fallbackResponse, TRUE, 0)
    /\ UNCHANGED authVars

\* createMessage of the fallback rejects inside the catch block: the async
\* handler's promise rejects, nothing handles it and nothing is sent.
SaveFallbackRejects(id) ==
    /\ aiReq[id].pc = "saveFallback"
    /\ aiReq' = [aiReq EXCEPT ![id].pc = "thrown"]
    /\ UNCHANGED <<messages, authVars>>

\* The call a handler is waiting for settles.
Settles(id) ==
    \/ AiResolves(id)
    \/ AiRejects(id)
    \/ SaveReplyResolves(id)
    \/ SaveReplyRejects(id)
    \/ SaveFallbackResolves(id)
    \/ SaveFallbackRejects(id)

\* ------------------------------------------------------------ rate limiter

NoLimited == [ip |-> Null, route |-> Null, resp |-> Null, passed |-> 0]

\* The limiter's store, increment(key): the first request of a client, or the
\* first after its window has ended, opens a window of windowMs with one hit;
\* any other request adds a hit to the current window.
Increment(ip, t) ==
    IF hits[ip] = 0 \/ resetTime[ip] <= t
    THEN [totalHits |-> 1, resetTime |-> t + windowMs]
    ELSE [totalHits |-> hits[ip] + 1, resetTime |-> resetTime[ip]]

\* A limiter that lets one request too many through.
PassesOneMore(ip, t) == Increment(ip, t).totalHits <= max + 1

\* The request is let through (next()) when totalHits <= max; otherwise the
\* limiter answers 429 with the message and a Retry-After header.
Passes(ip, t) == Increment(ip, t).totalHits <= max

\* oauthLimiter, the first middleware of every OAuth route: count the request
\* against the client's window, then pass it on or answer 429.
OauthLimiter(ip, route) ==
    /\ Increment(ip, now).totalHits <= max + MaxOver
    /\ hits' = [hits EXCEPT ![ip] = Increment(ip, now).totalHits]
    /\ resetTime' = [resetTime EXCEPT ![ip] = Increment(ip, now).resetTime]
    /\ recent' = IF Passes(ip, now)
                 THEN [recent EXCEPT ![ip][2] = @ + 1]
                 ELSE recent
    /\ limited' = [ip |-> ip, route |-> route,
                   resp |-> IF Passes(ip, now) THEN "next" ELSE "RateLimited",
                   passed |-> (IF Increment(ip, now).totalHits = 1 \/ limited.ip # ip
                               THEN 0 ELSE limited.passed)
                              + (IF Passes(ip, now) THEN 1 ELSE 0)]

\* GET /google | /github | /microsoft from a client: the limiter, then the route.
GetStart(ip, p) ==
    /\ OauthLimiter(ip, "start")
    /\ IF Passes(ip, now) THEN StartFlow(p) ELSE UNCHANGED <<pkceVars, verified>>
    /\ UNCHANGED <<now, vcall, lastVerify, userVars, tokenVars, aiVars>>

\* GET /<provider>/callback from a client: the limiter, then passport and the route.
GetCallback(ip, r, p, x, e, k) ==
    /\ OauthLimiter(ip, "callback")
    /\ IF Passes(ip, now)
       THEN Arrive(r, [NoReq EXCEPT !.kind = "callback", !.pc = "find", !.provider = p,
                                    !.oauthId = x, !.email = e, !.stateKey = k])
       ELSE req[r].pc = "idle" /\ UNCHANGED <<req, out>>
    /\ UNCHANGED <<now, pkceVars, verified, vcall, lastVerify, users, tokenVars, aiVars>>

\* POST /unlink/:provider from a client: the limiter, then the route.
PostUnlink(ip, r, id, p) ==
    /\ OauthLimiter(ip, "unlink")
    /\ IF Passes(ip, now)
       THEN Arrive(r, [NoReq EXCEPT !.kind = "unlink", !.pc = "findById", !.userId = id,
                                    !.provider = p])
       ELSE req[r].pc = "idle" /\ UNCHANGED <<req, out>>
    /\ UNCHANGED <<now, pkceVars, verified, vcall, lastVerify, users, tokenVars, aiVars>>

Init ==
    /\ now = 0
    /\ pkceStore = <<>>
    /\ nextKey = 0
    /\ flows = <<>>
    /\ verified = <<>>
    /\ vcall = [c \in Callers |-> NoCall]
    /\ lastVerify = NoVerify
    /\ users = <<>>
    /\ req = [r \in Reqs |-> NoReq]
    /\ out = NoOut
    /\ clockTimestamp = 0
    /\ held = {}
    /\ tres = NoTokenResponse
    /\ hits = [ip \in Ips |-> 0]
    /\ resetTime = [ip \in Ips |-> 0]
    /\ recent = [ip \in Ips |-> <<0, 0>>]
    /\ limited = NoLimited
    /\ messages = <<>>
    /\ aiReq = [id \in RequestIds |-> NoAiReq]

\* The PKCE store on its own: a start route, callers of verifyPKCE, the clock.
\* The three start routes differ only in the provider written into the state
\* parameter, which the store never sees, so one of them stands for all here.
NextPKCE ==
    \/ OAuthStart("google")
    \/ \E c \in Callers, k \in Keys \cup {NoKey} :
          \E ch \in ChallengesFor(k) : CallVerify(c, k, ch)
    \/ \E c \in Callers : VerifyPKCE(c)
    \/ Tick

SpecPKCE == Init /\ [][NextPKCE]_vars

\* What a register request carries for each email: one password, one role.
RegPassword == "pw1"
RegRole == [e \in Emails |-> IF e = "e1" THEN "admin" ELSE "user"]

\* The auth service, one request at a time: requests of every route arrive in
\* any order, each answered before the next arrives.
One == "r1"
Next ==
    \/ \E e \in Emails : StartRegister(One, e, RegPassword, RegRole[e])
    \/ Register(One)
    \/ \E e \in Emails, p \in Passwords : StartLogin(One, e, p)
    \/ Login(One)
    \/ \E p \in Providers, x \in ExternalIds, e \in Emails \cup {Null} :
          StartCallback(One, p, x, e, NoKey)
    \/ Callback(One)
    \/ \E id \in UserIds, p \in Providers \cup {OtherProvider}, x \in ExternalIds :
          StartLink(One, id, p, x)
    \/ Link(One)
    \/ \E id \in UserIds, p \in Providers \cup {OtherProvider} : StartUnlink(One, id, p)
    \/ Unlink(One)

Spec == Init /\ [][Next]_vars

\* One external id is enough where two requests contend for it.
RaceIds == {"x1"}

\* The OAuth login attempt: the start routes and the callback routes, with
\* registered users to log in.  The callback's state parameter names a key a
\* start route generated, or none.  No route calls verifyPKCE.
NextFlow ==
    \/ \E p \in Providers : OAuthStart(p)
    \/ \E e \in Emails : StartRegister(One, e, RegPassword, RegRole[e])
    \/ Register(One)
    \/ \E p \in Providers, x \in RaceIds, e \in Emails \cup {Null},
          k \in DOMAIN flows \cup {NoKey} : StartCallback(One, p, x, e, k)
    \/ Callback(One)

SpecFlow == Init /\ [][NextFlow]_vars

\* The account operations racing: two requests in flight at once, interleaved at
\* their awaits.  Two of the three providers are enough for a race.
RaceProviders == {"google", "github"}
NextRace ==
    \/ \E r \in Reqs, e \in Emails : StartRegister(r, e, RegPassword, RegRole[e])
    \/ \E r \in Reqs : Register(r)
    \/ \E r \in Reqs, p \in RaceProviders, x \in RaceIds, e \in Emails :
          StartCallback(r, p, x, e, NoKey)
    \/ \E r \in Reqs : Callback(r)
    \/ \E r \in Reqs, id \in UserIds, p \in RaceProviders, x \in RaceIds :
          StartLink(r, id, p, x)
    \/ \E r \in Reqs : Link(r)
    \/ \E r \in Reqs, id \in UserIds, p \in RaceProviders : StartUnlink(r, id, p)
    \/ \E r \in Reqs : Unlink(r)

SpecRace == Init /\ [][NextRace]_vars

\* The token service: registrations issue tokens, the client keeps some, time
\* passes, and the client presents tokens to an authenticated route and to
\* /refresh.
NextToken ==
    \/ \E e \in Emails : StartRegister(One, e, RegPassword, RegRole[e])
    \/ Register(One)
    \/ KeepIssued
    \/ KeepRefreshed
    \/ ClockTick
    \/ \E token \in Presented : Authenticate(token)
    \/ \E token \in Presented : Refresh(token)

SpecToken == Init /\ [][NextToken]_vars

\* The OAuth routes behind oauthLimiter: a client sends start, callback and
\* unlink requests for one registered account while time passes.
LimitEmail == "e1"
NextLimit ==
    \/ StartRegister(One, LimitEmail, RegPassword, RegRole[LimitEmail])
    \/ Register(One)
    \/ \E ip \in Ips : GetStart(ip, "google")
    \/ \E ip \in Ips : GetCallback(ip, One, "google", "x1", LimitEmail, NoKey)
    \/ Callback(One)
    \/ \E ip \in Ips : PostUnlink(ip, One, 1, "google")
    \/ Unlink(One)
    \/ Tick

SpecLimit == Init /\ [][NextLimit]_vars

\* Token issuance: every route that signs a token (register, login, the
\* callbacks, refresh), the client keeping tokens and presenting them to
\* /refresh while time passes.
\* The account that logs in by password and through the provider.
IssueEmail == "e1"
NextIssue ==
    \/ \E e \in Emails : StartRegister(One, e, RegPassword, RegRole[e])
    \/ Register(One)
    \/ StartLogin(One, IssueEmail, RegPassword)
    \/ Login(One)
    \/ StartCallback(One, "google", "x1", IssueEmail, NoKey)
    \/ Callback(One)
    \/ KeepIssued
    \/ KeepRefreshed
    \/ ClockTick
    \/ \E token \in Presented : Refresh(token)

SpecIssue == Init /\ [][NextIssue]_vars

\* The chat service's AI route: requests arrive with or without a
\* conversationId, and every call a handler awaits settles, one way or the other.
NextAI ==
    \/ \E id \in RequestIds, conversationId \in ConversationIds \cup {Undefined} :
          PostGenerateResponse(id, conversationId)
    \/ \E id \in RequestIds : AiResolves(id)
    \/ \E id \in RequestIds : AiRejects(id)
    \/ \E id \in RequestIds : SaveReplyResolves(id)
    \/ \E id \in RequestIds : SaveReplyRejects(id)
    \/ \E id \in RequestIds : SaveFallbackResolves(id)
    \/ \E id \in RequestIds : SaveFallbackRejects(id)

SpecAI == Init /\ [][NextAI]_vars /\ \A id \in RequestIds : WF_vars(Settles(id))

\* ------------------------------------------------------------------ claims

\* C1: once verifyPKCE has returned the stored verifier for a key, every later
\* verifyPKCE call on that key returns null, whatever challenge it presents and
\* whatever happened in between.
C1_SingleUse ==
    [][\A c \in Callers :
          (/\ vcall[c].state = "pending" /\ vcall'[c].state = "idle"
           /\ vcall[c].key \in DOMAIN verified /\ verified[vcall[c].key] > 0)
          => lastVerify'.result = Null]_vars

\* A second call on a consumed key, presenting the challenge generated for it
\* before the entry would have expired, has returned null.
C1_Witness ==
    /\ lastVerify.key \in DOMAIN flows
    /\ lastVerify.replay /\ lastVerify.intime
    /\ lastVerify.challenge = flows[lastVerify.key].challenge
    /\ lastVerify.result = Null

\* C6: of concurrent verifyPKCE calls on one key that all present the correct
\* challenge before expiry, at most one returns the verifier (so no key's
\* verifier is ever returned twice).
C6_AtMostOneSuccess ==
    \A k \in DOMAIN verified : verified[k] <= 1

\* Two callers were about to verify the same live key with the right challenge
\* at the same time; the first got the verifier and the second, now, null.
C6_Witness ==
    /\ lastVerify.key \in DOMAIN flows
    /\ lastVerify.overlap /\ lastVerify.intime /\ lastVerify.replay
    /\ lastVerify.challenge = flows[lastVerify.key].challenge
    /\ lastVerify.result = Null
    /\ verified[lastVerify.key] = 1

\* Slot r's request of the given kind is answered in this step.
Answers(r, kind) == req[r].kind = kind /\ InFlight(r) /\ req'[r].pc = "idle"

\* Row rows[i] is linked to the external identity (provider, oauthId).
Holds(rows, i, provider, oauthId) ==
    rows[i].oauth_provider = provider /\ rows[i].oauth_id = oauthId

\* C2: a callback issues a token only if the state it carries names a PKCE key
\* that a start route of the same provider created and that verifyPKCE has
\* verified and consumed; otherwise the attempt fails and no token is issued.
C2_TokenOnlyAfterVerifiedState ==
    (out.kind = "callback" /\ out.resp = "token")
    => /\ out.stateKey \in DOMAIN flows
       /\ flows[out.stateKey].provider = out.provider
       /\ verified[out.stateKey] > 0

\* C3: of two link requests in flight together that attach the same (provider,
\* external id) to two different existing users, exactly one answers ok and the
\* other AlreadyLinkedElsewhere, and exactly one user then holds the pair.
C3_ConcurrentLinkOneWins ==
    [][\A r \in Reqs :
          (/\ Answers(r, "link")
           /\ out.kind = "link" /\ r \in out.during
           /\ out.provider = req[r].provider /\ out.oauthId = req[r].oauthId
           /\ out.userId # req[r].userId
           /\ out.resp # "UserNotFound" /\ out'.resp # "UserNotFound")
          => /\ {out.resp, out'.resp} = {"ok", "AlreadyLinkedElsewhere"}
             /\ Cardinality({i \in DOMAIN users' :
                    Holds(users', i, req[r].provider, req[r].oauthId)}) = 1]_vars

\* C4: no two distinct users have the same (oauth_provider, oauth_id) pair with
\* both fields present.
C4_OAuthPairUnique ==
    \A i, j \in DOMAIN users :
        (/\ users[i].oauth_provider # Null /\ users[i].oauth_id # Null
         /\ Holds(users, j, users[i].oauth_provider, users[i].oauth_id))
        => i = j

\* C5: every user has a password hash or an OAuth link (or both).
C5_PasswordOrLink ==
    \A i \in DOMAIN users :
        users[i].password_hash # Null \/ users[i].oauth_provider # Null

\* An unlink has just removed the OAuth link of a user, who is left with the
\* password hash and no link.
C5_Witness ==
    /\ out.kind = "unlink" /\ out.resp = "ok" /\ out.wrote = "unlink"
    /\ \E i \in DOMAIN users :
          /\ users[i].id = out.userId
          /\ users[i].oauth_provider = Null
          /\ users[i].password_hash # Null

\* C7: when exactly one user U is linked to the profile's (provider, external
\* id), a callback whose profile carries any email resolves to U, changes no
\* user record and creates no user.
C7_LinkedIdentityResolvesFirst ==
    [][\A r \in Reqs, i \in DOMAIN users :
          (/\ Answers(r, "callback") /\ Truthy(req[r].email)
           /\ Holds(users, i, req[r].provider, req[r].oauthId)
           /\ \A j \in DOMAIN users :
                 Holds(users, j, req[r].provider, req[r].oauthId) => j = i)
          => /\ out'.resp = "token"
             /\ out'.token.userId = users[i].id
             /\ users' = users]_vars

C9_FirstProviderWins ==
    [][\A r \in Reqs, i \in DOMAIN users :
          (/\ Answers(r, "callback")
           /\ users[i].email = req[r].email
           /\ users[i].oauth_provider # Null
           /\ users[i].oauth_provider # req[r].provider)
          => /\ out'.resp = "token"
             /\ out'.token.userId = users[i].id
             /\ users'[i].oauth_provider = users[i].oauth_provider
             /\ users'[i].oauth_id = users[i].oauth_id]_vars

\* C10: for a user registered with email e and password p and no OAuth link, a
\* callback whose profile has email e resolves to that user, sets only
\* oauth_provider and oauth_id, and a login(e, p) that follows it succeeds.
C10_PasswordLoginSurvivesLink ==
    [][\A r \in Reqs, i \in DOMAIN users :
          /\ (/\ Answers(r, "callback")
              /\ users[i].email = req[r].email
              /\ users[i].password_hash # Null
              /\ users[i].oauth_provider = Null)
             => /\ out'.resp = "token"
                /\ out'.token.userId = users[i].id
                /\ users'[i] = [users[i] EXCEPT !.oauth_provider = req[r].provider,
                                                !.oauth_id = req[r].oauthId]
          /\ (/\ Answers(r, "login")
              /\ out.kind = "callback" /\ out.resp = "token" /\ out.wrote = "link"
              /\ out.email = req[r].email
              /\ users[i].id = out.token.userId
              /\ users[i].password_hash = BcryptHash(req[r].pw))
             => /\ out'.resp = "token"
                /\ out'.token.userId = users[i].id]_vars

\* C11: a link request for an existing user and a valid provider, made while
\* some other user holds the (provider, external id), is answered
\* AlreadyLinkedElsewhere and changes no user record.
C11_LinkedElsewhereRejected ==
    [][\A r \in Reqs :
          (/\ Answers(r, "link")
           /\ req[r].provider \in Providers
           /\ \E i \in DOMAIN users : users[i].id = req[r].userId
           /\ \E j \in DOMAIN users :
                 /\ users[j].id # req[r].userId
                 /\ Holds(users, j, req[r].provider, req[r].oauthId))
          => /\ out'.resp = "AlreadyLinkedElsewhere"
             /\ users' = users]_vars

\* C12: a register request answered while some user has its email, whether it
\* found that user or lost a race to the request that created it, is answered
\* AlreadyExists and creates no user.
C12_RegisterTakenEmail ==
    [][\A r \in Reqs :
          (/\ Answers(r, "register")
           /\ \E i \in DOMAIN users : users[i].email = req[r].email)
          => /\ out'.resp = "AlreadyExists"
             /\ users' = users]_vars

\* C13: no two distinct users have the same email.
C13_EmailUnique ==
    \A i, j \in DOMAIN users : users[i].email = users[j].email => i = j

\* A register request that found no user with its email has lost the race to a
\* concurrent register of the same email: its INSERT was rejected and the email
\* has its one user.
C13_Witness ==
    /\ out.kind = "register" /\ out.resp = "InternalError"
    /\ Cardinality({i \in DOMAIN users : users[i].email = out.email}) = 1

\* C17: for a user with a password hash, a login with the matching password is
\* answered with a token for that user and sets that user's last_login; a login
\* with an unknown email or a non-matching password is answered
\* InvalidCredentials, with no token and no user record changed.
C17_PasswordLogin ==
    [][\A r \in Reqs :
          Answers(r, "login") =>
             /\ \A i \in DOMAIN users :
                   (/\ users[i].email = req[r].email
                    /\ users[i].password_hash = BcryptHash(req[r].pw))
                   => /\ out'.resp = "token"
                      /\ out'.token.userId = users[i].id
                      /\ users' = [users EXCEPT ![i].last_login = now]
             /\ (\A i \in DOMAIN users :
                    users[i].email = req[r].email
                    => /\ users[i].password_hash # Null
                       /\ users[i].password_hash # BcryptHash(req[r].pw))
                => /\ out'.resp = "InvalidCredentials"
                   /\ out'.token = NoToken
                   /\ users' = users]_vars

C19_CallbackCreatesUser ==
    [][\A r \in Reqs :
          (/\ Answers(r, "callback") /\ Truthy(req[r].email)
           /\ \A i \in DOMAIN users :
                 /\ users[i].email # req[r].email
                 /\ ~Holds(users, i, req[r].provider, req[r].oauthId))
          => /\ out'.resp = "token"
             /\ users' = Append(users, NewRow(users, req[r].email, Null, "user",
                                              req[r].provider, req[r].oauthId, TRUE))
             /\ out'.token.userId = Len(users')]_vars

\* C20: a callback whose profile carries no email fails with the no-email
\* error: no token is issued, no user is created and no user record changes.
C20_NoEmailFails ==
    [][\A r \in Reqs :
          (Answers(r, "callback") /\ req[r].email = Null)
          => /\ out'.resp = "NoEmailProvided"
             /\ out'.token = NoToken
             /\ users' = users]_vars

\* A callback without an email has been refused while users exist.
C20_Witness ==
    /\ out.kind = "callback" /\ out.email = Null
    /\ out.resp = "NoEmailProvided" /\ out.token = NoToken
    /\ users # <<>>

\* C14: to a correctly signed token past its expiry the middleware and refresh
\* answer 'Token expired', to a token whose signature does not match they
\* answer 'Invalid token', and so the two answers differ.
C14_ExpiredDistinguished ==
    (tres.op \in {"authenticate", "refresh"} /\ tres.token # NoToken)
    => /\ (tres.token.sig = Secret /\ tres.at >= tres.token.exp)
          => tres.resp = "Token expired"
       /\ tres.token.sig # Secret => tres.resp = "Invalid token"

C16_RefreshOnlyValid ==
    (tres.op = "refresh" /\ tres.token # NoToken)
    => IF tres.token.sig = Secret /\ tres.at < tres.token.exp
       THEN /\ tres.resp = "token"
            /\ Payload(tres.newToken) = Payload(tres.token)
            /\ tres.newToken.sig = Secret
            /\ tres.newToken.exp = tres.at + TokenTtl
       ELSE /\ tres.resp = "Invalid token"
            /\ tres.newToken = NoToken

\* A token was refreshed some time after it was issued: the new token has the
\* same payload and a later expiry.
C16_Witness ==
    /\ tres.op = "refresh" /\ tres.resp = "token"
    /\ Payload(tres.newToken) = Payload(tres.token)
    /\ tres.newToken.exp > tres.token.exp

\* C21: an unlink request with a valid provider for an existing user is
\* answered ok, whether or not the user is linked; it leaves that user's
\* oauth_provider and oauth_id null and changes nothing else (password hash,
\* email, role, the other users), so a second unlink changes nothing at all.
C21_UnlinkIdempotent ==
    [][\A r \in Reqs, i \in DOMAIN users :
          (/\ Answers(r, "unlink")
           /\ req[r].provider \in Providers
           /\ users[i].id = req[r].userId)
          => /\ out'.resp = "ok"
             /\ users' = [users EXCEPT ![i].oauth_provider = Null, ![i].oauth_id = Null]
             /\ users[i].oauth_provider = Null => users' = users]_vars

\* An unlink has been repeated, with the same answer ok, for a user who already
\* had no link, after the first unlink was answered.
C21_Witness ==
    /\ out.kind = "unlink" /\ out.resp = "ok" /\ out.again
    /\ out.wrote = "none"
    /\ \E i \in DOMAIN users :
          /\ users[i].id = out.userId
          /\ users[i].oauth_provider = Null /\ users[i].oauth_id = Null
    /\ \E j \in DOMAIN users : users[j].id # out.userId /\ users[j].oauth_provider # Null

\* C22: once the expiry of a PKCE entry (ten minutes after generatePKCE made it)
\* has passed, verifyPKCE on its key returns null at every later time, also when
\* the challenge presented is the one generated with the key.
C22_ExpiredReturnsNull ==
    (lastVerify.key \in DOMAIN flows /\ ~lastVerify.intime) => lastVerify.result = Null

\* The entry was still in the store, never consumed, and the caller presented
\* its challenge after the expiry: null.
C22_Witness ==
    /\ lastVerify.key \in DOMAIN flows
    /\ lastVerify.key \in DOMAIN pkceStore
    /\ ~lastVerify.intime /\ ~lastVerify.replay
    /\ pkceStore[lastVerify.key].expires < now
    /\ lastVerify.challenge = pkceStore[lastVerify.key].challenge
    /\ lastVerify.result = Null

\* C23: verifyPKCE(key, challenge) returns the verifier exactly when the key is
\* present in the store, its entry has not expired and the challenge equals the
\* stored one; the value returned is then the verifier stored for that key (the
\* one whose hash is the challenge generated with it) and in every other case it
\* is null.
C23_VerifierIffValid ==
    [][\A c \in Callers :
          (vcall[c].state = "pending" /\ vcall'[c].state = "idle")
          => LET k == vcall[c].key
                 valid == /\ k \in DOMAIN pkceStore
                          /\ ~(pkceStore[k].expires < now)
                          /\ pkceStore[k].challenge = vcall[c].challenge
             IN /\ valid => /\ lastVerify'.result = pkceStore[k].verifier
                            /\ Sha256(lastVerify'.result) = flows[k].challenge
                /\ ~valid => lastVerify'.result = Null]_vars

\* A first call on a live key with its own challenge has returned that key's
\* verifier, while another key's entry is still stored.
C23_Witness ==
    /\ lastVerify.key \in DOMAIN flows
    /\ lastVerify.intime /\ ~lastVerify.replay /\ ~lastVerify.overlap
    /\ lastVerify.result = RandomVerifier(lastVerify.key)
    /\ lastVerify.key \notin DOMAIN pkceStore
    /\ \E j \in DOMAIN pkceStore : pkceStore[j].verifier # lastVerify.result

\* C24: for each client IP, in each window of the limiter (fifteen minutes from
\* the client's first counted request) at most 10 requests in total across the
\* OAuth routes reach their handlers; every further request of that window gets
\* the RateLimited answer and changes neither the PKCE store nor a user record,
\* and starts no handler.
C24_QuotaPerWindow ==
    [][(<<hits, resetTime>>' # <<hits, resetTime>>)
       => /\ limited'.passed <= max
          /\ limited'.resp = "next" <=> hits'[limited'.ip] <= max
          /\ limited'.resp = "RateLimited"
                => pkceStore' = pkceStore /\ users' = users /\ req' = req]_vars

\* The eleventh request of a window was an unlink of a linked account: it was
\* answered RateLimited and the link is still there.
C24_Witness ==
    /\ limited.resp = "RateLimited" /\ limited.route = "unlink"
    /\ limited.passed = max
    /\ hits[limited.ip] = max + 1
    /\ \E i \in DOMAIN users : users[i].id = 1 /\ users[i].oauth_provider = "google"

\* C24 as stated, for any fifteen minutes of the clock: the requests of one
\* client that reach handlers at two consecutive instants (five minutes apart)
\* number at most 10.
C24_AnyFifteenMinutes ==
    \A ip \in Ips : recent[ip][1] + recent[ip][2] <= max

\* C25: a start route creates exactly one new PKCE entry, and the authorization
\* request it hands to the provider carries a state that encodes the route's
\* provider together with the key of the new entry, and carries the challenge
\* of the new entry.
C25_StartCarriesStateAndChallenge ==
    [][nextKey' # nextKey
       => LET key == nextKey'
              request == flows'[key].authRequest
          IN /\ key \notin DOMAIN pkceStore
             /\ DOMAIN pkceStore' \ DOMAIN pkceStore = {key}
             /\ request.state = JsonStringify([provider |-> flows'[key].provider, pkceKey |-> key])
             /\ "code_challenge" \in DOMAIN request
             /\ request.code_challenge = pkceStore'[key].challenge]_vars

\* C26: the provider set is closed: a link or unlink request naming a provider
\* outside {google, github, microsoft} is answered with an error and changes no
\* user record, whatever userId and external id it supplies.
C26_ClosedProviderSet ==
    [][\A r \in Reqs :
          (/\ req[r].kind \in {"link", "unlink"} /\ InFlight(r)
           /\ req[r].provider = OtherProvider)
          => /\ users' = users
             /\ req'[r].pc = "idle"
             /\ out'.resp = "InvalidProvider"]_vars

\* A link of a fresh external id to an existing, unlinked user was refused for
\* its provider, while another user holds a link.
C26_Witness ==
    /\ out.kind = "link" /\ out.provider = OtherProvider /\ out.resp = "InvalidProvider"
    /\ \E i \in DOMAIN users : users[i].id = out.userId /\ users[i].oauth_provider = Null
    /\ \E j \in DOMAIN users : users[j].oauth_provider \in Providers
    /\ \A i \in DOMAIN users : users[i].oauth_id # out.oauthId

\* C27: the sweep in generatePKCE removes every entry whose expiry is before the
\* current time and leaves every other entry as it was; and no step other than a
\* verifyPKCE call that returns the verifier removes an entry that has not
\* expired.
C27_SweepOnlyExpired ==
    [][/\ nextKey' # nextKey
          => /\ \A k \in DOMAIN pkceStore' : ~(pkceStore'[k].expires < now)
             /\ \A k \in DOMAIN pkceStore :
                   ~(pkceStore[k].expires < now)
                   => k \in DOMAIN pkceStore' /\ pkceStore'[k] = pkceStore[k]
       /\ \A k \in DOMAIN pkceStore :
             (~(pkceStore[k].expires < now) /\ k \notin DOMAIN pkceStore')
             => /\ lastVerify' = [lastVerify' EXCEPT !.key = k,
                                     !.result = pkceStore[k].verifier]
                /\ \E c \in Callers : vcall[c].state = "pending" /\ vcall'[c].state = "idle"]_vars

\* A start route has just swept away an entry that had expired and was never
\* verified, and stored its own.
C27_Witness ==
    /\ nextKey \in DOMAIN pkceStore
    /\ pkceStore[nextKey].expires = now + PkceTtl
    /\ \E k \in DOMAIN flows : /\ k \notin DOMAIN pkceStore /\ verified[k] = 0
                               /\ flows[k].expires < now

\* C28: a verifyPKCE call that returns null leaves the store unchanged; a wrong
\* challenge in particular does not consume the entry, and a later call with
\* the right challenge before the expiry still returns the verifier.
C28_NullLeavesStore ==
    [][\A c \in Callers :
          (vcall[c].state = "pending" /\ vcall'[c].state = "idle")
          => LET k == vcall[c].key IN
             /\ lastVerify'.result = Null => pkceStore' = pkceStore
             /\ (/\ MissedJustBefore(k)
                 /\ ~(flows[k].expires < now)
                 /\ vcall[c].challenge = flows[k].challenge)
                => lastVerify'.result = RandomVerifier(k)]_vars

\* After a call with a wrong challenge on a live entry had returned null, the
\* next call, with the right one, has returned the verifier.
C28_Witness ==
    /\ lastVerify.afterMiss
    /\ lastVerify.result = RandomVerifier(lastVerify.key)
    /\ verified[lastVerify.key] = 1

\* C29: every token issued by register, login, refresh or a callback has as its
\* subject the id of a user that exists when it is issued, with email and role
\* claims equal to that user's stored email and role; and a request that is
\* answered with an error gets no token.
C29_TokensNameUsers ==
    [][/\ (out' # out /\ out'.token # NoToken)
          => /\ out'.resp = "token"
             /\ \E i \in DOMAIN users' : RowClaims(users'[i]) = Payload(out'.token)
       /\ (out' # out /\ out'.resp # "token") => out'.token = NoToken
       /\ (tres' # tres /\ tres'.newToken # NoToken)
          => /\ tres'.resp = "token"
             /\ \E i \in DOMAIN users' : RowClaims(users'[i]) = Payload(tres'.newToken)
       /\ (tres' # tres /\ tres'.resp # "token") => tres'.newToken = NoToken]_vars

\* A callback has issued a token for a registered admin, and a refresh has
\* issued one for a token the client kept.
C29_Witness ==
    /\ out.kind = "callback" /\ out.resp = "token" /\ out.token.role = "admin"
    /\ tres.op = "refresh" /\ tres.resp = "token"
    /\ \E i \in DOMAIN users : RowClaims(users[i]) = Payload(tres.newToken)

\* The 'ai' messages with the given content that request id's handler persisted.
Persisted(id, content) ==
    {m \in DOMAIN messages : /\ messages[m].forRequest = id
                             /\ messages[m].messageType = "ai"
                             /\ messages[m].content = content}

\* C30: every POST /ai/generate-response request eventually receives exactly
\* one response, whether the AI service call and the message store succeed or
\* fail: on success the AI reply is persisted as one 'ai' message and returned;
\* on any failure the fallback reply is returned with fallback = true, and when
\* the request carries a conversationId the fallback is persisted as one 'ai'
\* message.
C30_EveryRequestAnswered ==
    /\ \A id \in RequestIds : (aiReq[id].pc # "idle") ~> (aiReq[id].responses = 1)
    /\ [](\A id \in RequestIds :
            /\ aiReq[id].responses <= 1
            /\ (aiReq[id].responses = 1 /\ ~aiReq[id].fallback)
               => /\ aiReq[id].response = AiReply
                  /\ Cardinality(Persisted(id, AiReply)) = 1
                  /\ aiReq[id].messageId \in Persisted(id, AiReply)
            /\ (aiReq[id].responses = 1 /\ aiReq[id].fallback)
               => /\ aiReq[id].response = fallbackResponse
                  /\ Truthy(aiReq[id].conversationId)
                     => Cardinality(Persisted(id, fallbackResponse)) = 1)

=============================================================================
